---------------------------- MODULE Spec2Model ----------------------------
(***************************************************************************)
(* dsan-sanitize-piiremover: a command-line tool that redacts PII from a   *)
(* text file with four regular-expression substitutions (src/main.py).     *)
(*                                                                         *)
(* Texts are TLA+ strings; a character is a string of length 1.  The       *)
(* regular expressions of sanitize_text are written as syntax trees and    *)
(* matched by a backtracking matcher that follows the priority order of    *)
(* Python's re module (greedy and lazy repetition, leftmost match), and    *)
(* re.sub is modelled with its template expansion of the replacement.      *)
(***************************************************************************)
EXTENDS Integers, Sequences, FiniteSets, TLC

(***************************************************************************)
(* Characters and character classes of Python's re on str patterns,        *)
(* restricted to the ASCII characters the model's texts are made of.       *)
(***************************************************************************)
Ch(s, i) == SubSeq(s, i, i)

Digits == {"0", "1", "2", "3", "4", "5", "6", "7", "8", "9"}

Lower == {"a", "b", "c", "d", "e", "f", "g", "h", "i", "j", "k", "l", "m",
          "n", "o", "p", "q", "r", "s", "t", "u", "v", "w", "x", "y", "z"}

Upper == {"A", "B", "C", "D", "E", "F", "G", "H", "I", "J", "K", "L", "M",
          "N", "O", "P", "Q", "R", "S", "T", "U", "V", "W", "X", "Y", "Z"}

\* \s
Whitespace == {" ", "\t", "\n", "\r", "\f"}

\* \w
WordChars == Digits \cup Lower \cup Upper \cup {"_"}

IsWordAt(s, i) == i >= 1 /\ i <= Len(s) /\ Ch(s, i) \in WordChars

(***************************************************************************)
(* Regular-expression syntax trees.                                        *)
(***************************************************************************)
Cls(cs) == [t |-> "cls", cs |-> cs]
Lit(c) == Cls({c})
WordB == [t |-> "wb"]
Cat(rs) == [t |-> "cat", rs |-> rs]
\* r{lo,hi}
Rep(r, lo, hi) == [t |-> "rep", r |-> r, lo |-> lo, hi |-> hi, inf |-> FALSE, lazy |-> FALSE]
\* r{lo,}
RepInf(r, lo) == [t |-> "rep", r |-> r, lo |-> lo, hi |-> lo, inf |-> TRUE, lazy |-> FALSE]
\* r*?
StarLazy(r) == [t |-> "rep", r |-> r, lo |-> 0, hi |-> 0, inf |-> TRUE, lazy |-> TRUE]
\* r?
Opt(r) == Rep(r, 0, 1)

(***************************************************************************)
(* Ends(re, s, i): the positions at which a match of re that starts at     *)
(* position i of s (the next character to read, 1..Len(s)+1) can end, in   *)
(* the order in which the backtracking matcher tries them.                 *)
(***************************************************************************)
RECURSIVE Ends(_, _, _), CatEnds(_, _, _, _), CatOver(_, _, _, _),
          RepEnds(_, _, _, _), RepOver(_, _, _, _)

Ends(re, s, i) ==
    CASE re.t = "cls" -> IF i <= Len(s) /\ Ch(s, i) \in re.cs THEN <<i + 1>> ELSE <<>>
      [] re.t = "wb"  -> IF IsWordAt(s, i - 1) # IsWordAt(s, i) THEN <<i>> ELSE <<>>
      [] re.t = "cat" -> CatEnds(re.rs, 1, s, i)
      [] re.t = "rep" -> RepEnds(re, 0, s, i)

CatEnds(rs, k, s, i) ==
    IF k > Len(rs) THEN <<i>> ELSE CatOver(rs, k + 1, s, Ends(rs[k], s, i))

CatOver(rs, k, s, js) ==
    IF js = <<>> THEN <<>>
    ELSE CatEnds(rs, k, s, Head(js)) \o CatOver(rs, k, s, Tail(js))

RepEnds(re, n, s, i) ==
    LET more == IF re.inf \/ n < re.hi
                THEN RepOver(re, n + 1, s, Ends(re.r, s, i))
                ELSE <<>>
        stop == IF n >= re.lo THEN <<i>> ELSE <<>>
    IN  IF re.lazy THEN stop \o more ELSE more \o stop

RepOver(re, n, s, js) ==
    IF js = <<>> THEN <<>>
    ELSE RepEnds(re, n, s, Head(js)) \o RepOver(re, n, s, Tail(js))

\* The end of the match the matcher reports at start position i, 0 if none.
MatchAt(re, s, i) ==
    LET es == Ends(re, s, i) IN IF es = <<>> THEN 0 ELSE Head(es)

(***************************************************************************)
(* The four patterns of sanitize_text.                                     *)
(***************************************************************************)
D == Cls(Digits)

\* r"\b\d{3}-\d{2}-\d{4}\b"
SSN_RE ==
    Cat(<<WordB, Rep(D, 3, 3), Lit("-"), Rep(D, 2, 2), Lit("-"), Rep(D, 4, 4), WordB>>)

PhoneSep == Cls({"-", "."} \cup Whitespace)

\* r"\b(?:\+\d{1,3}\s*)?\(?\d{3}\)?[-.\s]?\d{3}[-.\s]?\d{4}\b"
PHONE_RE ==
    Cat(<<WordB,
          Opt(Cat(<<Lit("+"), Rep(D, 1, 3), RepInf(Cls(Whitespace), 0)>>)),
          Opt(Lit("(")), Rep(D, 3, 3), Opt(Lit(")")),
          Opt(PhoneSep), Rep(D, 3, 3), Opt(PhoneSep), Rep(D, 4, 4), WordB>>)

EmailLocal == Cls(Upper \cup Lower \cup Digits \cup {".", "_", "%", "+", "-"})
EmailDomain == Cls(Upper \cup Lower \cup Digits \cup {".", "-"})
\* [A-Z|a-z]: the bar is a member of the class
EmailTld == Cls(Upper \cup {"|"} \cup Lower)

\* r"\b[A-Za-z0-9._%+-]+@[A-Za-z0-9.-]+\.[A-Z|a-z]{2,}\b"
EMAIL_RE ==
    Cat(<<WordB, RepInf(EmailLocal, 1), Lit("@"), RepInf(EmailDomain, 1),
          Lit("."), RepInf(EmailTld, 2), WordB>>)

\* r"\b(?:\d[ -]*?){13,16}\b"
CREDIT_CARD_RE ==
    Cat(<<WordB, Rep(Cat(<<D, StarLazy(Cls({" ", "-"}))>>), 13, 16), WordB>>)

(***************************************************************************)
(* re.sub(pattern, repl, string).  The replacement is a template: re       *)
(* parses its backslash escapes before it scans the string, and raises     *)
(* re.error on a bad one whether or not the pattern matches.  Modelled:    *)
(* \n \t \r \f \\ (one character), \g<0> (the whole match; the patterns    *)
(* have no capturing group, so any other group is an error), \1..\9 (an    *)
(* invalid group reference), a backslash before another ASCII letter or at *)
(* the end (bad escape), a backslash before any other character (kept).    *)
(* Octal escapes and \a \b \v are not modelled; no marker of the model     *)
(* uses them.                                                              *)
(***************************************************************************)
Backslash == "\\"

EscapeChar(c) ==
    CASE c = "n" -> "\n" [] c = "t" -> "\t" [] c = "r" -> "\r"
      [] c = "f" -> "\f" [] c = Backslash -> Backslash

Piece(lit) == [grp |-> FALSE, lit |-> lit]
WholeMatch == [grp |-> TRUE, lit |-> ""]
BadTemplate == [ok |-> FALSE, parts |-> <<>>]

RECURSIVE TemplateFrom(_, _)
TemplateFrom(r, i) ==
    LET then(piece, j) ==
            LET rest == TemplateFrom(r, j)
            IN  [ok |-> rest.ok, parts |-> IF rest.ok THEN <<piece>> \o rest.parts ELSE <<>>]
    IN  IF i > Len(r) THEN [ok |-> TRUE, parts |-> <<>>]
        ELSE IF Ch(r, i) # Backslash THEN then(Piece(Ch(r, i)), i + 1)
        ELSE IF i = Len(r) THEN BadTemplate
        ELSE LET c == Ch(r, i + 1)
             IN  CASE c = "g" ->
                        IF i + 4 <= Len(r) /\ SubSeq(r, i + 2, i + 4) = "<0>"
                        THEN then(WholeMatch, i + 5) ELSE BadTemplate
                   [] c \in {"n", "t", "r", "f", Backslash} ->
                        then(Piece(EscapeChar(c)), i + 2)
                   [] c \in (Digits \ {"0"}) /\ (i + 2 > Len(r) \/ Ch(r, i + 2) \notin Digits) ->
                        BadTemplate
                   [] c \in (Lower \cup Upper) \ {"g", "n", "t", "r", "f", "a", "b", "v"} ->
                        BadTemplate
                   [] c \notin (Lower \cup Upper \cup Digits \cup {Backslash}) ->
                        then(Piece(Backslash \o c), i + 2)

ParseTemplate(repl) == TemplateFrom(repl, 1)

RECURSIVE Expand(_, _)
Expand(parts, m) ==
    IF parts = <<>> THEN ""
    ELSE (IF Head(parts).grp THEN m ELSE Head(parts).lit) \o Expand(Tail(parts), m)

(***************************************************************************)
(* The scan of re.sub: from pos, the leftmost start at which the pattern   *)
(* matches; the text before it is copied, the match is replaced, and the   *)
(* scan goes on from the end of the match.  None of the four patterns      *)
(* matches the empty string, so the scan always advances.                  *)
(***************************************************************************)
Min(S) == CHOOSE m \in S : \A n \in S : m <= n

\* The positions at which the pattern matches, whatever precedes them.
MatchStarts(re, s) == {i \in 1..Len(s) : MatchAt(re, s, i) # 0}

RECURSIVE SubFrom(_, _, _, _, _)
SubFrom(re, parts, s, starts, pos) ==
    LET left == {i \in starts : i >= pos}
    IN  IF left = {} THEN SubSeq(s, pos, Len(s))
        ELSE LET i == Min(left)
                 e == MatchAt(re, s, i)
             IN  SubSeq(s, pos, i - 1) \o Expand(parts, SubSeq(s, i, e - 1))
                     \o SubFrom(re, parts, s, starts, e)

\* Sub with count=1: only the leftmost match is replaced.
SubFirstOnly(re, repl, s) ==
    LET starts == MatchStarts(re, s)
    IN  IF starts = {} THEN s
        ELSE LET i == Min(starts)
                 e == MatchAt(re, s, i)
             IN  SubSeq(s, 1, i - 1) \o Expand(ParseTemplate(repl).parts, SubSeq(s, i, e - 1))
                     \o SubSeq(s, e, Len(s))

Sub(re, repl, s) == SubFrom(re, ParseTemplate(repl).parts, s, MatchStarts(re, s), 1)

\* The number of replacements Sub makes.
RECURSIVE CountFrom(_, _, _, _)
CountFrom(re, s, starts, pos) ==
    LET left == {i \in starts : i >= pos}
    IN  IF left = {} THEN 0
        ELSE 1 + CountFrom(re, s, starts, MatchAt(re, s, Min(left)))

SubCount(re, s) == CountFrom(re, s, MatchStarts(re, s), 1)

(***************************************************************************)
(* Bounds and inputs.  A text is a concatenation of at most MaxFrags       *)
(* fragments; sanitize_text is called at most MaxCalls times in a row,     *)
(* each further call on the text the previous one returned.                *)
(***************************************************************************)
MaxFrags == 2
MaxCalls == 2

Fragments ==
    {"123-45-6789", "555-123-4567", "+123 555-123-4567", "a@b.co", "a@b.",
     "4111111111111", " ", "x"}

RECURSIVE TextsOf(_)
TextsOf(n) ==
    IF n = 0 THEN {""}
    ELSE LET T == TextsOf(n - 1) IN T \cup {t \o f : t \in T, f \in Fragments}

\* One instance of each category, as in the scenarios of the specification.
SsnInstances == {"123-45-6789"}
PhoneInstances == {"555-123-4567", "(555) 123-4567", "+123 555-123-4567"}
EmailInstances == {"john@example.com"}
CardInstances == {"4111 1111 1111 1111"}

OneOfEach(p, e, s, c) == "Call " \o p \o " or " \o e \o ". SSN: " \o s \o ". Card " \o c

OneOfEachTexts ==
    {OneOfEach(p, e, s, c) : p \in PhoneInstances, e \in EmailInstances,
                             s \in SsnInstances, c \in CardInstances}

\* Phone numbers with a country code or a parenthesized area code, at the
\* start of the text or after whitespace.
PrefixedPhones ==
    {"+1 555-123-4567", "(555) 123-4567", "+123 555-123-4567",
     "at +1 555-123-4567", "at (555) 123-4567", "+44(555)123.4567"}

\* Texts close to a shape, and texts that hold a marker already.
NearShapes ==
    {"a@b.c|m", "4111  1111  1111  1111", "4111-1111-1111-1111", "555\t123\t4567",
     "abc123456789012345xyz", "<REDACTED>", "<REDACTED>@b.co", "no pii here",
     "Contact John at 555-123-4567 or john@example.com. SSN: 123-45-6789."}

Texts == TextsOf(MaxFrags) \cup OneOfEachTexts \cup PrefixedPhones \cup NearShapes

\* redact_char: the default, a marker of letters, a marker with an escape,
\* and a marker that is not a valid template.
Markers == {"<REDACTED>", "XX", "#\\n", "\\1"}

\* SanitizeConfig (the two paths are the model's two files)
Configs ==
    [redact_char : Markers, remove_ssn : BOOLEAN, remove_phone : BOOLEAN,
     remove_email : BOOLEAN, remove_credit_card : BOOLEAN]

(***************************************************************************)
(* State.                                                                  *)
(***************************************************************************)
VARIABLES
    pc,           \* the position in main / sanitize_text
    config,       \* the SanitizeConfig
    arg,          \* the text sanitize_text was called with
    text,         \* sanitize_text's variable text
    ret,          \* the values sanitize_text returned (<<>> before it returns)
    calls,        \* the number of calls of sanitize_text so far
    log,          \* the logging records, <<level, message>>
    infile,       \* the input path:  [exists, content]
    outfile,      \* the output path: [exists, content]
    io,           \* the file operations of the run and their outcomes
    exit_status   \* the exit status, NotExited while the process runs

vars == <<pc, config, arg, text, ret, calls, log, infile, outfile, io, exit_status>>

mainVars == <<infile, outfile, io, exit_status>>

NotExited == -1

Info(m) == <<"INFO", m>>
Warning(m) == <<"WARNING", m>>
Error(m) == <<"ERROR", m>>

(***************************************************************************)
(* sanitize_text(text, config)                                             *)
(***************************************************************************)
\* Removes with the credit-card block not guarded by its flag.
RemovesCardUnguarded(cfg, stage) ==
    CASE stage = "ssn" -> cfg.remove_ssn
      [] stage = "phone" -> cfg.remove_phone
      [] stage = "email" -> cfg.remove_email
      [] stage = "credit_card" -> TRUE

Removes(cfg, stage) ==
    CASE stage = "ssn" -> cfg.remove_ssn
      [] stage = "phone" -> cfg.remove_phone
      [] stage = "email" -> cfg.remove_email
      [] stage = "credit_card" -> cfg.remove_credit_card

\* After with the credit-card block moved before the phone block.
AfterCardBeforePhone(stage) ==
    CASE stage = "ssn" -> "credit_card"
      [] stage = "credit_card" -> "phone"
      [] stage = "phone" -> "email"
      [] stage = "email" -> "return"

\* The statement that follows each block of sanitize_text.
After(stage) ==
    CASE stage = "ssn" -> "phone"
      [] stage = "phone" -> "email"
      [] stage = "email" -> "credit_card"
      [] stage = "credit_card" -> "return"

\* if config.remove_<stage>: logging.info(msg); text = re.sub(re, config.redact_char, text)
Detect(stage, re, msg) ==
    /\ pc = stage
    /\ IF Removes(config, stage)
       THEN /\ log' = Append(log, Info(msg))
            /\ IF ParseTemplate(config.redact_char).ok
               THEN /\ text' = Sub(re, config.redact_char, text)
                    /\ pc' = After(stage)
               ELSE /\ text' = text
                    /\ pc' = "raised"
       ELSE /\ log' = log
            /\ text' = text
            /\ pc' = After(stage)
    /\ UNCHANGED <<config, arg, ret, calls, mainVars>>

RemoveSsn == Detect("ssn", SSN_RE, "Removing SSNs.")

RemovePhone == Detect("phone", PHONE_RE, "Removing phone numbers.")

RemoveEmail == Detect("email", EMAIL_RE, "Removing email addresses.")

RemoveCreditCard == Detect("credit_card", CREDIT_CARD_RE, "Removing credit card numbers.")

\* Returned for a function that ends without its return statement.
ReturnedNothing(t) == <<>>

\* What sanitize_text hands back: return text
Returned(t) == <<t>>

Return ==
    /\ pc = "return"
    /\ log' = Append(log, Info("Text sanitization complete."))
    /\ ret' = Returned(text)
    /\ pc' = "returned"
    /\ UNCHANGED <<config, arg, text, calls, mainVars>>

\* The entry of sanitize_text(t, config)
Enter(t) ==
    /\ arg' = t
    /\ text' = t
    /\ ret' = <<>>
    /\ calls' = calls + 1
    /\ log' = Append(log, Info("Starting text sanitization."))
    /\ pc' = "ssn"

\* A caller sanitizes the text a call returned once more.
CallAgain ==
    /\ pc = "returned"
    /\ calls < MaxCalls
    /\ Enter(ret[1])
    /\ UNCHANGED <<config, mainVars>>

Init ==
    /\ config \in Configs
    /\ arg \in Texts
    /\ text = arg
    /\ ret = <<>>
    /\ calls = 1
    /\ log = <<Info("Starting text sanitization.")>>
    /\ pc = "ssn"
    /\ infile = [exists |-> FALSE, content |-> ""]
    /\ outfile = [exists |-> FALSE, content |-> ""]
    /\ io = <<>>
    /\ exit_status = NotExited

Next ==
    \/ RemoveSsn
    \/ RemovePhone
    \/ RemoveEmail
    \/ RemoveCreditCard
    \/ Return
    \/ CallAgain

Spec == Init /\ [][Next]_vars

(***************************************************************************)
(* main(): validate the configuration, read the input file, sanitize,      *)
(* write the output file.  sys.exit raises SystemExit, which the outer     *)
(* "except Exception" does not catch, so each sys.exit(1) ends the run.    *)
(***************************************************************************)
Exit(status) == exit_status' = status /\ pc' = "exited"

Did(op, outcome) == io' = Append(io, <<op, outcome>>)

\* os.path.exists(v), as a file operation of the run
Exists(f) == IF f.exists THEN "yes" ELSE "no"

\* InputFileErrors for a validator that does not check the path.
InputFileErrorsNever(f) == <<>>

\* SanitizeConfig.input_file_exists: the errors it raises
InputFileErrors(f) == IF ~f.exists THEN <<"Input file does not exist.">> ELSE <<>>

\* OutputFileErrors for a validator that rejects an existing output path.
OutputFileErrorsIfExists(f) == IF f.exists THEN <<"Output file already exists.">> ELSE <<>>

\* SanitizeConfig.output_file_does_not_exist: the errors it raises (none: it
\* returns v whether or not the file exists)
OutputFileErrors(f) == <<>>

\* SanitizeConfig.output_file_does_not_exist: what it logs
OutputFileWarnings(f) ==
    IF f.exists THEN <<Warning("Output file already exists.  It will be overwritten.")>>
    ELSE <<>>

\* config = SanitizeConfig(**config_data): both validators run, their errors
\* are collected into one ValidationError.
ValidateConfig ==
    /\ pc = "start"
    /\ io' = io \o <<<<"input_exists", Exists(infile)>>, <<"output_exists", Exists(outfile)>>>>
    /\ IF InputFileErrors(infile) \o OutputFileErrors(outfile) # <<>>
       THEN /\ log' = log \o OutputFileWarnings(outfile) \o <<Error("Configuration error")>>
            /\ Exit(1)
       ELSE /\ log' = log \o OutputFileWarnings(outfile)
            /\ pc' = "read"
            /\ UNCHANGED exit_status
    /\ UNCHANGED <<config, arg, text, ret, calls, infile, outfile>>

\* with open(config.input_file, 'r', encoding='utf-8') as infile: text = infile.read()
\* The file can be gone by now (FileNotFoundError), the open can be refused
\* or the bytes can fail to decode (Exception).
ReadInput ==
    /\ pc = "read"
    /\ \/ /\ infile.exists
          /\ Did("read_input", "ok")
          /\ text' = infile.content
          /\ pc' = "call"
          /\ UNCHANGED <<log, infile, exit_status>>
       \/ /\ infile' = [exists |-> FALSE, content |-> ""]
          /\ Did("read_input", "FileNotFoundError")
          /\ log' = Append(log, Error("Input file not found."))
          /\ Exit(1)
          /\ UNCHANGED text
       \/ /\ infile.exists
          /\ Did("read_input", "Exception")
          /\ log' = Append(log, Error("Error reading input file"))
          /\ Exit(1)
          /\ UNCHANGED <<text, infile>>
    /\ UNCHANGED <<config, arg, ret, calls, outfile>>

\* sanitized_text = sanitize_text(text, config)
CallSanitize ==
    /\ pc = "call"
    /\ Enter(text)
    /\ UNCHANGED <<config, mainVars>>

\* WriteOutput with the failure of the write logged but not exited on.
WriteOutputSwallowed ==
    /\ pc = "returned"
    /\ \/ /\ Did("write_output", "ok")
          /\ outfile' = [exists |-> TRUE, content |-> ret[1]]
          /\ log' = Append(log, Info("Sanitized text written."))
          /\ Exit(0)
       \/ /\ Did("write_output", "open failed")
          /\ log' = Append(log, Error("Error writing to output file"))
          /\ Exit(0)
          /\ UNCHANGED outfile
       \/ /\ Did("write_output", "write failed")
          /\ outfile' = [exists |-> TRUE, content |-> ""]
          /\ log' = Append(log, Error("Error writing to output file"))
          /\ Exit(0)
    /\ UNCHANGED <<config, arg, text, ret, calls, infile>>

\* with open(config.output_file, 'w', encoding='utf-8') as outfile: outfile.write(sanitized_text)
\* Opening for writing creates or truncates the file; a write that fails
\* after the open leaves it truncated.
WriteOutput ==
    /\ pc = "returned"
    /\ \/ /\ Did("write_output", "ok")
          /\ outfile' = [exists |-> TRUE, content |-> ret[1]]
          /\ log' = Append(log, Info("Sanitized text written."))
          /\ Exit(0)
       \/ /\ Did("write_output", "open failed")
          /\ log' = Append(log, Error("Error writing to output file"))
          /\ Exit(1)
          /\ UNCHANGED outfile
       \/ /\ Did("write_output", "write failed")
          /\ outfile' = [exists |-> TRUE, content |-> ""]
          /\ log' = Append(log, Error("Error writing to output file"))
          /\ Exit(1)
    /\ UNCHANGED <<config, arg, text, ret, calls, infile>>

\* except Exception as e: the re.error of a bad replacement template
Unexpected ==
    /\ pc = "raised"
    /\ log' = Append(log, Error("An unexpected error occurred"))
    /\ Exit(1)
    /\ UNCHANGED <<config, arg, text, ret, calls, infile, outfile, io>>

NoFile == [exists |-> FALSE, content |-> ""]

File(c) == [exists |-> TRUE, content |-> c]

InputTexts == TextsOf(MaxFrags - 1) \cup NearShapes

MainInit ==
    /\ config \in Configs
    /\ infile \in {NoFile} \cup {File(c) : c \in InputTexts}
    /\ outfile \in {NoFile, File("old output")}
    /\ arg = ""
    /\ text = ""
    /\ ret = <<>>
    /\ calls = 0
    /\ log = <<>>
    /\ io = <<>>
    /\ exit_status = NotExited
    /\ pc = "start"

MainNext ==
    \/ ValidateConfig
    \/ ReadInput
    \/ CallSanitize
    \/ RemoveSsn
    \/ RemovePhone
    \/ RemoveEmail
    \/ RemoveCreditCard
    \/ Return
    \/ WriteOutput
    \/ Unexpected

MainSpec == MainInit /\ [][MainNext]_vars

(***************************************************************************)
(* Vocabulary of the properties.                                           *)
(***************************************************************************)
Range(f) == {f[i] : i \in DOMAIN f}

Stages == {"ssn", "phone", "email", "credit_card"}

DefaultMarker == "<REDACTED>"

AllEnabled(cfg) ==
    cfg.remove_ssn /\ cfg.remove_phone /\ cfg.remove_email /\ cfg.remove_credit_card

AllDisabled(cfg) ==
    ~cfg.remove_ssn /\ ~cfg.remove_phone /\ ~cfg.remove_email /\ ~cfg.remove_credit_card

\* The flag of a category, read from the configuration.
Flag(cfg, stage) ==
    CASE stage = "ssn" -> cfg.remove_ssn
      [] stage = "phone" -> cfg.remove_phone
      [] stage = "email" -> cfg.remove_email
      [] stage = "credit_card" -> cfg.remove_credit_card

OnlyDisabled(cfg, stage) == \A st \in Stages : Flag(cfg, st) <=> st # stage

ValidMarker(cfg) == ParseTemplate(cfg.redact_char).ok

\* One detector as a function of the text: skipped when its flag is off.
Pass(flag, re, cfg, s) == IF flag THEN Sub(re, cfg.redact_char, s) ELSE s

AfterSsn(s, cfg) == Pass(cfg.remove_ssn, SSN_RE, cfg, s)
AfterPhone(s, cfg) == Pass(cfg.remove_phone, PHONE_RE, cfg, AfterSsn(s, cfg))
AfterEmail(s, cfg) == Pass(cfg.remove_email, EMAIL_RE, cfg, AfterPhone(s, cfg))

\* SSN, then PHONE, then EMAIL, then CREDIT_CARD, each on the previous output.
Pipeline(s, cfg) == Pass(cfg.remove_credit_card, CREDIT_CARD_RE, cfg, AfterEmail(s, cfg))

\* Some substring of s, starting anywhere, matches re.
Contains(re, s) == \E i \in 1..Len(s) : MatchAt(re, s, i) # 0

\* What an instance becomes when its category is enabled.
Redacted(cfg, stage, instance) == IF Flag(cfg, stage) THEN cfg.redact_char ELSE instance

\* The text a marker puts in place of a match (no reference to the match).
MarkerText(cfg) == Expand(ParseTemplate(cfg.redact_char).parts, "")

PiiShaped(s) ==
    \/ Contains(SSN_RE, s)
    \/ Contains(PHONE_RE, s)
    \/ Contains(EMAIL_RE, s)
    \/ Contains(CREDIT_CARD_RE, s)

\* The four shapes as the specification words them, without the boundary
\* anchors: SSN and PHONE as the code has them, the e-mail address with a
\* last label of two or more letters, the credit card with at most one
\* space or hyphen between two digits.
SpecSsnShape == Cat(<<Rep(D, 3, 3), Lit("-"), Rep(D, 2, 2), Lit("-"), Rep(D, 4, 4)>>)

SpecPhoneShape ==
    Cat(<<Opt(Cat(<<Lit("+"), Rep(D, 1, 3), RepInf(Cls(Whitespace), 0)>>)),
          Opt(Lit("(")), Rep(D, 3, 3), Opt(Lit(")")),
          Opt(PhoneSep), Rep(D, 3, 3), Opt(PhoneSep), Rep(D, 4, 4)>>)

SpecEmailShape ==
    Cat(<<RepInf(EmailLocal, 1), Lit("@"), RepInf(EmailDomain, 1), Lit("."),
          RepInf(Cls(Upper \cup Lower), 2)>>)

SpecCardShape == Cat(<<D, Rep(Cat(<<Opt(Cls({" ", "-"})), D>>), 12, 15)>>)

NoSpecShape(s) ==
    /\ ~Contains(SpecSsnShape, s)
    /\ ~Contains(SpecPhoneShape, s)
    /\ ~Contains(SpecEmailShape, s)
    /\ ~Contains(SpecCardShape, s)

\* The number of replacements each detector makes during a call.
Count(cfg, stage, re, s) == IF Flag(cfg, stage) THEN SubCount(re, s) ELSE 0

MatchCounts(s, cfg) ==
    [ssn |-> Count(cfg, "ssn", SSN_RE, s),
     phone |-> Count(cfg, "phone", PHONE_RE, AfterSsn(s, cfg)),
     email |-> Count(cfg, "email", EMAIL_RE, AfterPhone(s, cfg)),
     credit_card |-> Count(cfg, "credit_card", CREDIT_CARD_RE, AfterEmail(s, cfg))]

\* The file operations and the log of a run of main().
Happened(op, outcome) == <<op, outcome>> \in Range(io)

Attempted(op) == \E e \in Range(io) : e[1] = op

Logged(entry) == entry \in Range(log)

ReadFailed == Happened("read_input", "FileNotFoundError") \/ Happened("read_input", "Exception")

WriteFailed == Happened("write_output", "open failed") \/ Happened("write_output", "write failed")

\* The output path is as validation found it.
OutputUntouched ==
    outfile = IF Happened("output_exists", "yes") THEN File("old output") ELSE NoFile

(***************************************************************************)
(* C1: sanitize_text applies the enabled detectors in the order SSN,       *)
(* PHONE, EMAIL, CREDIT_CARD, each scanning the text the previous one      *)
(* produced: what it returns is that composition of the four passes, so a  *)
(* phone number that a country code makes card-shaped is taken by the      *)
(* phone pass and the card pass no longer finds it.                        *)
(***************************************************************************)
C1_FixedOrder ==
    pc = "returned" =>
        /\ ret = <<Pipeline(arg, config)>>
        /\ (arg = "+123 555-123-4567" /\ AllEnabled(config) /\ config.redact_char = DefaultMarker
                => ret = <<"+123 <REDACTED>">>)

\* C1: the phone pass took the number; the card pass alone would have taken more.
C1_Witness ==
    /\ pc = "returned"
    /\ arg = "+123 555-123-4567"
    /\ AllEnabled(config)
    /\ config.redact_char = DefaultMarker
    /\ ret = <<"+123 <REDACTED>">>
    /\ Sub(CREDIT_CARD_RE, DefaultMarker, arg) = "+<REDACTED>"

(***************************************************************************)
(* C2: with all four detectors disabled sanitize_text returns exactly its  *)
(* input, for every text and every marker (a marker that is no valid       *)
(* template included: no substitution is attempted).                       *)
(***************************************************************************)
C2_AllDisabledIdentity ==
    AllDisabled(config) => /\ pc # "raised"
                           /\ pc = "returned" => ret = <<arg>>

\* C2: a text full of PII and an invalid template, returned as given.
C2_Witness ==
    /\ pc = "returned"
    /\ AllDisabled(config)
    /\ config.redact_char = "\\1"
    /\ arg = "Contact John at 555-123-4567 or john@example.com. SSN: 123-45-6789."
    /\ ret = <<arg>>

(***************************************************************************)
(* C3: category isolation.  For a text with one instance of each category  *)
(* and exactly one category disabled, the output is the text with the      *)
(* disabled category's instance untouched and each of the other three      *)
(* instances replaced by the marker.  (Stated for the default marker.)     *)
(***************************************************************************)
C3_CategoryIsolation ==
    \A p \in PhoneInstances, e \in EmailInstances, s \in SsnInstances, c \in CardInstances :
        \A off \in Stages :
            /\ pc = "returned"
            /\ calls = 1
            /\ arg = OneOfEach(p, e, s, c)
            /\ config.redact_char = DefaultMarker
            /\ OnlyDisabled(config, off)
            => ret = <<OneOfEach(Redacted(config, "phone", p), Redacted(config, "email", e),
                                 Redacted(config, "ssn", s), Redacted(config, "credit_card", c))>>

C5_NoShapeUnchanged ==
    pc = "returned" /\ calls = 1 /\ AllEnabled(config) /\ NoSpecShape(arg) => ret = <<arg>>

C10_PrefixedPhoneWhollyReplaced ==
    \A lead \in {"", "at "} :
        \A p \in {"+1 555-123-4567", "+123 555-123-4567", "(555) 123-4567"} :
            /\ pc = "returned"
            /\ calls = 1
            /\ arg = lead \o p
            /\ config.remove_phone
            /\ config.redact_char = DefaultMarker
            => ret = <<lead \o DefaultMarker>>

(***************************************************************************)
(* C6: when the input path does not exist at validation, the run logs a    *)
(* configuration error and exits with status 1 at once: the input is never *)
(* read, sanitize_text is never called, the output is never opened.        *)
(***************************************************************************)
C6_MissingInputStopsRun ==
    Happened("input_exists", "no") =>
        /\ pc = "exited"
        /\ exit_status = 1
        /\ Logged(Error("Configuration error"))
        /\ ~Attempted("read_input")
        /\ calls = 0
        /\ ~Attempted("write_output")
        /\ OutputUntouched

\* C6: the input is missing and the output exists: warning, error, exit 1.
C6_Witness ==
    /\ Happened("input_exists", "no")
    /\ Happened("output_exists", "yes")
    /\ pc = "exited"
    /\ exit_status = 1

(***************************************************************************)
(* C7: a failed read or a failed write ends the run with status 1; after a *)
(* failed read sanitize_text is not called and the output is not opened;   *)
(* and status 0 is reached only with the sanitized text of the input       *)
(* written to the output path.                                             *)
(***************************************************************************)
C7_IoFailuresExitNonZero ==
    /\ ReadFailed => /\ pc = "exited"
                     /\ exit_status = 1
                     /\ calls = 0
                     /\ ~Attempted("write_output")
                     /\ OutputUntouched
    /\ WriteFailed => pc = "exited" /\ exit_status = 1
    /\ exit_status = 0 => /\ pc = "exited"
                          /\ Happened("write_output", "ok")
                          /\ calls = 1
                          /\ ret = <<Pipeline(infile.content, config)>>
                          /\ outfile = File(ret[1])

\* C7: the write failed after the open: status 1, the output left truncated.
C7_Witness ==
    /\ Happened("write_output", "write failed")
    /\ pc = "exited"
    /\ exit_status = 1
    /\ ret # <<"">>
    /\ outfile = File("")

=============================================================================
